---- MODULE Spec2Model ----
(***************************************************************************)
(* Model of the App component (src/unnamed/part_000, the same handler as   *)
(* both versions in src/src/App.tsx): the four state slots of the view,    *)
(* the onChange handler of the input, the async handleSubmit handler with  *)
(* its suspension points (await fetch, await res.text, await res.json),    *)
(* and the three conditional blocks of the render function.                *)
(*                                                                         *)
(* handleSubmit is an async function: the part up to the first await runs  *)
(* in the submit event, and each continuation runs as one task when the    *)
(* awaited promise settles.  The state updates of one task are committed   *)
(* together, so each task is one action.  The handler itself has no guard  *)
(* on the loading flag (the only guard is the disabled attribute of the    *)
(* button), so a submit event can be delivered while a call is in flight.  *)
(***************************************************************************)
EXTENDS Integers, Sequences, FiniteSets, TLC

(* ------------------------------ bounds --------------------------------- *)
MaxQueryLen == 1      \* longest text typed into the input
MaxFetches == 2       \* number of fetch calls issued in one behaviour
MaxBand == 2          \* band ids that occur in responses

(* ------------------------------ values --------------------------------- *)
Undefined == "undefined"        \* the JS value undefined
Null == "null"                  \* the JS value null

\* the `results` property of a parsed body: an array, or missing
Array(a) == [kind |-> "array", items |-> a]
Absent == [kind |-> "absent", items |-> <<>>]

\* a body that is not JSON: res.json() rejects
ParseFailure == [valid |-> FALSE, results |-> Absent]
Json(r) == [valid |-> TRUE, results |-> r]

Whitespace == {" "}
Chars == {" ", "g"}
DefaultQuery == <<"G", "h", "o", "s", "t">>

ConfigError == "VITE_API_URL is not configured."
ValidationError == "Please type a band name."
UnknownError == "Unknown error"

\* the base addresses a build can have
ApiUrls == {Undefined, "", "https://api.example"}

\* texts the input can hold after an edit
Queries == UNION {[1..n -> Chars] : n \in 0..MaxQueryLen}

\* `results` arrays of a response: band records, stood for by their ids
ResultArrays == {[i \in 1..n |-> i] : n \in 0..MaxBand}

\* bodies of responses: the raw text and what it parses to
ResultsBody(a) == [text |-> "{\"results\":" \o ToString(a) \o "}",
                   json |-> Json(Array(a))]
OkBodies ==
    {[text |-> "", json |-> ParseFailure],
     [text |-> "{}", json |-> Json(Absent)]}
    \cup {ResultsBody(a) : a \in ResultArrays}
ErrorBodies ==
    {[text |-> "", json |-> ParseFailure],
     [text |-> "rate limited", json |-> ParseFailure],
     ResultsBody(<<1>>)}

OkStatuses == {200}
ErrorStatuses == {429, 500}
Responses ==
    [ok : {TRUE}, status : OkStatuses, body : OkBodies]
    \cup [ok : {FALSE}, status : ErrorStatuses, body : ErrorBodies]

\* JSON.stringify({ query: trimmed, limit: 10 })
Limit == 10
RequestBody(trimmed) == [query |-> trimmed, limit |-> Limit]
NoRequest == [query |-> <<>>, limit |-> 0]

\* the response slot of a call still waiting for fetch
NoResponse == [ok |-> FALSE, status |-> 0,
               body |-> [text |-> "", json |-> ParseFailure]]

\* messages of errors thrown by fetch, res.text and res.json
NetworkErrors == {"", "Failed to fetch"}
ParseErrors == {"Unexpected end of JSON input"}

VARIABLES
    API_URL,   \* the build-time base address
    query,     \* useState("Ghost"): the input text, a sequence of characters
    results,   \* useState<Band[]>([])
    loading,   \* useState(false)
    error,     \* useState<string | null>(null)
    calls,     \* invocations of handleSubmit suspended at an await
    nfetch,    \* number of fetch calls issued so far
    lastOk,    \* history: parsed body of the last successful settlement, if any
    last       \* history: the handler that ran last and its input

vars == <<API_URL, query, results, loading, error, calls, nfetch, lastOk, last>>

(* ----------------------- pure parts of the code ------------------------ *)
\* String.prototype.trim on a sequence of characters (the space stands for
\* every character trim strips)
RECURSIVE TrimStart(_)
TrimStart(s) ==
    IF s # <<>> /\ Head(s) \in Whitespace THEN TrimStart(Tail(s)) ELSE s

RECURSIVE TrimEnd(_)
TrimEnd(s) ==
    IF s # <<>> /\ s[Len(s)] \in Whitespace
    THEN TrimEnd(SubSeq(s, 1, Len(s) - 1)) ELSE s

\* variant of trim that strips nothing
NoTrim(s) == s

Trim(s) == TrimEnd(TrimStart(s))

\* variant of the test that takes the empty string for an address
NotConfiguredUndefinedOnly(url) == url = Undefined

\* !API_URL
NotConfigured(url) == url = Undefined \/ url = ""

\* variant without the fallback to the status code
HttpErrorTextNoFallback(res) == res.body.text

\* text || `HTTP ${res.status}`
HttpErrorText(res) ==
    IF res.body.text # "" THEN res.body.text
    ELSE "HTTP " \o ToString(res.status)

\* err.message || "Unknown error"
ErrorMessage(msg) == IF msg # "" THEN msg ELSE UnknownError

\* variants that append to the list, or keep only the first record
ResultsOfAppend(json) ==
    IF json.results.kind # "array" THEN results
    ELSE results \o json.results.items

ResultsOfFirstOnly(json) ==
    IF json.results.kind # "array" THEN <<>>
    ELSE IF json.results.items = <<>> THEN <<>>
    ELSE <<Head(json.results.items)>>

\* json.results ?? []
ResultsOf(json) ==
    IF json.results.kind # "array" THEN <<>> ELSE json.results.items

(* ------------------------------ render --------------------------------- *)
\* {error && <div>Error: {error}</div>}
ShowError == error # Null /\ error # ""

\* variant of the hint condition without the loading test
ShowHintIgnoresLoading == ~ShowError /\ Len(results) = 0

\* {!loading && !error && results.length === 0 && <p>Try searching ...</p>}
ShowHint == ~loading /\ ~ShowError /\ Len(results) = 0

\* {results.length > 0 && <ul>...</ul>}
ShowList == Len(results) > 0

\* <button type="submit" disabled={loading}>
SubmitDisabled == loading

(* ------------------------------ state ---------------------------------- *)
Init ==
    /\ API_URL \in ApiUrls
    /\ query = DefaultQuery
    /\ results = <<>>
    /\ loading = FALSE
    /\ error = Null
    /\ calls = {}
    /\ nfetch = 0
    /\ lastOk = <<>>
    /\ last = [op |-> "mount", arg |-> Null]

\* onChange={(e) => setQuery(e.target.value)}
SetQuery(v) ==
    /\ query' = v
    /\ last' = [op |-> "setQuery", arg |-> v]
    /\ UNCHANGED <<API_URL, results, loading, error, calls, nfetch, lastOk>>

\* variant of handleSubmit whose local failures also clear the result list
HandleSubmitClearsResults ==
    /\ IF NotConfigured(API_URL)
       THEN /\ error' = ConfigError
            /\ results' = <<>>
            /\ last' = [op |-> "handleSubmit", arg |-> NoRequest]
            /\ UNCHANGED <<loading, calls, nfetch>>
       ELSE IF Trim(query) = <<>>
       THEN /\ error' = ValidationError
            /\ results' = <<>>
            /\ last' = [op |-> "handleSubmit", arg |-> NoRequest]
            /\ UNCHANGED <<loading, calls, nfetch>>
       ELSE /\ nfetch < MaxFetches
            /\ error' = Null
            /\ loading' = TRUE
            /\ nfetch' = nfetch + 1
            /\ last' = [op |-> "handleSubmit",
                        arg |-> RequestBody(Trim(query))]
            /\ calls' = calls \cup {[id |-> nfetch + 1, pc |-> "fetch",
                                     res |-> NoResponse, raced |-> FALSE]}
            /\ UNCHANGED results
    /\ UNCHANGED <<API_URL, query, lastOk>>

\* variant of handleSubmit that never raises the loading flag
HandleSubmitNoLoading ==
    /\ IF NotConfigured(API_URL)
       THEN /\ error' = ConfigError
            /\ last' = [op |-> "handleSubmit", arg |-> NoRequest]
            /\ UNCHANGED <<loading, calls, nfetch>>
       ELSE IF Trim(query) = <<>>
       THEN /\ error' = ValidationError
            /\ last' = [op |-> "handleSubmit", arg |-> NoRequest]
            /\ UNCHANGED <<loading, calls, nfetch>>
       ELSE /\ nfetch < MaxFetches
            /\ error' = Null
            /\ UNCHANGED loading
            /\ nfetch' = nfetch + 1
            /\ last' = [op |-> "handleSubmit",
                        arg |-> RequestBody(Trim(query))]
            /\ calls' = calls \cup {[id |-> nfetch + 1, pc |-> "fetch",
                                     res |-> NoResponse, raced |-> FALSE]}
    /\ UNCHANGED <<API_URL, query, results, lastOk>>

\* handleSubmit up to the first await: setError(null), the two local checks,
\* setLoading(true) and the call of fetch; last.arg is the body passed to
\* fetch, or NoRequest when the handler returns before it
HandleSubmit ==
    /\ IF NotConfigured(API_URL)
       THEN /\ error' = ConfigError
            /\ last' = [op |-> "handleSubmit", arg |-> NoRequest]
            /\ UNCHANGED <<loading, calls, nfetch>>
       ELSE IF Trim(query) = <<>>
       THEN /\ error' = ValidationError
            /\ last' = [op |-> "handleSubmit", arg |-> NoRequest]
            /\ UNCHANGED <<loading, calls, nfetch>>
       ELSE /\ nfetch < MaxFetches
            /\ error' = Null
            /\ loading' = TRUE
            /\ nfetch' = nfetch + 1
            /\ last' = [op |-> "handleSubmit",
                        arg |-> RequestBody(Trim(query))]
            /\ calls' = calls \cup {[id |-> nfetch + 1, pc |-> "fetch",
                                     res |-> NoResponse, raced |-> FALSE]}
    /\ UNCHANGED <<API_URL, query, results, lastOk>>

\* the calls left suspended when call c finishes; each of them has now seen
\* another call settle while it was in flight
Others(c) == {[d EXCEPT !.raced = TRUE] : d \in calls \ {c}}

\* variants of the catch/finally path that leave the loading flag, or the
\* result list, as it was
CatchKeepsLoading(c, msg) ==
    /\ error' = ErrorMessage(msg)
    /\ results' = <<>>
    /\ calls' = Others(c)
    /\ UNCHANGED <<API_URL, query, loading, nfetch, lastOk>>

CatchKeepsResults(c, msg) ==
    /\ error' = ErrorMessage(msg)
    /\ loading' = FALSE
    /\ calls' = Others(c)
    /\ UNCHANGED <<API_URL, query, results, nfetch, lastOk>>

\* catch (err) { setError(...); setResults([]) } finally { setLoading(false) }
Catch(c, msg) ==
    /\ error' = ErrorMessage(msg)
    /\ results' = <<>>
    /\ loading' = FALSE
    /\ calls' = Others(c)
    /\ UNCHANGED <<API_URL, query, nfetch, lastOk>>

\* await fetch(...) resolves with a response: the handler goes on to
\* await res.text() or await res.json()
FetchResolved(c, res) ==
    /\ c \in calls /\ c.pc = "fetch"
    /\ calls' = (calls \ {c})
                \cup {[c EXCEPT !.pc = IF res.ok THEN "json" ELSE "text",
                                !.res = res]}
    /\ last' = [op |-> "fetchResolved", arg |-> res]
    /\ UNCHANGED <<API_URL, query, results, loading, error, nfetch, lastOk>>

\* await fetch(...) rejects (network failure)
FetchRejected(c, msg) ==
    /\ c \in calls /\ c.pc = "fetch"
    /\ last' = [op |-> "fetchRejected", arg |-> msg]
    /\ Catch(c, msg)

\* await res.text() resolves: throw new Error(text || `HTTP ${res.status}`)
TextResolved(c) ==
    /\ c \in calls /\ c.pc = "text"
    /\ last' = [op |-> "textResolved", arg |-> c.res]
    /\ Catch(c, HttpErrorText(c.res))

\* await res.text() rejects (the body cannot be read)
TextRejected(c, msg) ==
    /\ c \in calls /\ c.pc = "text"
    /\ last' = [op |-> "textRejected", arg |-> msg]
    /\ Catch(c, msg)

\* await res.json() resolves: setResults(json.results ?? []), then finally
JsonResolved(c) ==
    /\ c \in calls /\ c.pc = "json" /\ c.res.body.json # ParseFailure
    /\ last' = [op |-> "jsonResolved", arg |-> c.res]
    /\ results' = ResultsOf(c.res.body.json)
    /\ loading' = FALSE
    /\ lastOk' = <<c.res.body.json>>
    /\ calls' = Others(c)
    /\ UNCHANGED <<API_URL, query, error, nfetch>>

\* await res.json() rejects (the body is not JSON)
JsonRejected(c, msg) ==
    /\ c \in calls /\ c.pc = "json" /\ c.res.body.json = ParseFailure
    /\ last' = [op |-> "jsonRejected", arg |-> msg]
    /\ Catch(c, msg)

Next ==
    \/ \E v \in Queries : SetQuery(v)
    \/ HandleSubmit
    \/ \E c \in calls, res \in Responses : FetchResolved(c, res)
    \/ \E c \in calls, msg \in NetworkErrors : FetchRejected(c, msg)
    \/ \E c \in calls : TextResolved(c)
    \/ \E c \in calls, msg \in NetworkErrors : TextRejected(c, msg)
    \/ \E c \in calls : JsonResolved(c)
    \/ \E c \in calls, msg \in ParseErrors : JsonRejected(c, msg)

Spec == Init /\ [][Next]_vars

TypeOK ==
    /\ API_URL \in ApiUrls
    /\ query \in Queries \cup {DefaultQuery}
    /\ loading \in BOOLEAN
    /\ nfetch \in 0..MaxFetches
    /\ \A c \in calls : c.id \in 1..nfetch

(* ======================= properties of the component ==================== *)
\* a query that is empty or consists of whitespace only
IsBlank(q) == \A i \in 1..Len(q) : q[i] \in Whitespace

\* the base address is set to a non-empty string
Configured == API_URL # Undefined /\ API_URL # ""

\* the tasks in which a call finishes, and those in which it finishes failed
FailOps == {"fetchRejected", "textResolved", "textRejected", "jsonRejected"}
SettleOps == FailOps \cup {"jsonResolved"}

\* the list a response body stands for: its `results` array, or nothing
ListOf(body) ==
    IF body.json.results.kind = "array" THEN body.json.results.items ELSE <<>>

\* the message a failed settlement stands for
MessageOf(l) ==
    IF l.op = "textResolved"
    THEN (IF l.arg.body.text = "" THEN "HTTP " \o ToString(l.arg.status)
          ELSE l.arg.body.text)
    ELSE (IF l.arg = "" THEN UnknownError ELSE l.arg)

\* the visible state <<results, error, loading>> a call that was submitted
\* alone and settled as recorded in l would leave
Alone(l) ==
    IF l.op = "jsonResolved" THEN <<ListOf(l.arg.body), Null, FALSE>>
    ELSE <<<<>>, MessageOf(l), FALSE>>

\* the submission passed nothing to fetch
NoFetch == last'.arg = NoRequest /\ nfetch' = nfetch /\ calls' = calls

(* C1, as stated: whatever the configuration, a submission whose query is  *)
(* empty or whitespace-only issues no network request and leaves the       *)
(* error equal to the validation error.                                    *)
C1_Original ==
    [][(last'.op = "handleSubmit" /\ IsBlank(query))
        => (NoFetch /\ error' = ValidationError)]_vars

(* C1, amended: when the base address is configured, a submission whose    *)
(* query is empty or whitespace-only issues no network request and leaves  *)
(* the error equal to the validation error.                                *)
C1_BlankQuery ==
    [][(last'.op = "handleSubmit" /\ Configured /\ IsBlank(query))
        => (NoFetch /\ error' = ValidationError)]_vars

C1_Witness ==
    /\ last.op = "handleSubmit" /\ Configured
    /\ query # <<>> /\ IsBlank(query)
    /\ error = ValidationError /\ nfetch = 0

(* C2: when the base address is not configured, every submission, whatever *)
(* the query and the prior state, issues no network request and leaves the *)
(* error equal to the configuration error.                                 *)
C2_NotConfigured ==
    [][(last'.op = "handleSubmit" /\ ~Configured)
        => (NoFetch /\ error' = ConfigError)]_vars

C2_Witness ==
    /\ last.op = "handleSubmit" /\ API_URL = ""
    /\ ~IsBlank(query)
    /\ error = ConfigError /\ nfetch = 0 /\ calls = {}

(* C3, as stated: loading is true exactly when a dispatched request has    *)
(* not yet settled.                                                        *)
C3_Original == loading <=> calls # {}

(* C3, amended: loading is never true with no request outstanding, and it  *)
(* is false while a request is outstanding only if another request has     *)
(* settled since that request was dispatched.                              *)
C3_Loading ==
    /\ loading => calls # {}
    /\ (\E c \in calls : ~c.raced) => loading

C3_Witness == ~loading /\ calls # {} /\ \A c \in calls : c.raced

(* C4: the result list is empty or exactly the `results` array of the most *)
(* recent successful response, and right after a failed response settles   *)
(* it is empty.                                                            *)
C4_ResultList ==
    /\ \/ results = <<>>
       \/ /\ lastOk # <<>>
          /\ lastOk[1].results.kind = "array"
          /\ results = lastOk[1].results.items
    /\ last.op \in FailOps => results = <<>>

C4_Witness ==
    /\ last.op \in FailOps
    /\ lastOk # <<>> /\ lastOk[1].results.kind = "array"
    /\ lastOk[1].results.items # <<>>
    /\ results = <<>>

(* C5, as stated: when the last of several overlapping calls settles, the  *)
(* visible state (results, error, loading) is the state that call would    *)
(* have produced on its own.                                               *)
C5_Original ==
    [][(last'.op \in SettleOps /\ calls' = {} /\ \E c \in calls : c.raced)
        => <<results', error', loading'>> = Alone(last')]_vars

(* C5, amended: when the last of several overlapping calls settles, the    *)
(* result list and the loading flag are those the call would have produced *)
(* on its own; so is the error if the call failed, but if it succeeded the *)
(* error is left as it was before the settlement.                          *)
C5_LastWins ==
    [][(last'.op \in SettleOps /\ calls' = {} /\ \E c \in calls : c.raced)
        => /\ results' = Alone(last')[1]
           /\ loading' = Alone(last')[3]
           /\ error' = IF last'.op \in FailOps THEN Alone(last')[2]
                       ELSE error]_vars

C5_Witness ==
    /\ last.op = "jsonResolved" /\ calls = {} /\ nfetch = 2
    /\ results # <<>>
    /\ error \notin {Null, ConfigError, ValidationError}

(* C6, as stated: the status display is the error banner, the hint or      *)
(* nothing; the hint is shown exactly when not loading, no error and no    *)
(* results; while loading or with results present nothing is shown.        *)
C6_Original ==
    /\ ~(ShowError /\ ShowHint)
    /\ ShowHint <=> (~loading /\ error = Null /\ results = <<>>)
    /\ (loading \/ results # <<>>) => (~ShowError /\ ~ShowHint)

(* C6, amended: the banner and the hint are never shown together; the      *)
(* banner is shown exactly when an error is set, also while loading or     *)
(* with results present; the hint is shown exactly when not loading, no    *)
(* error and no results, so never while loading or with results present.   *)
C6_Status ==
    /\ ~(ShowError /\ ShowHint)
    /\ ShowError <=> error # Null
    /\ ShowHint <=> (~loading /\ error = Null /\ results = <<>>)
    /\ (loading \/ results # <<>>) => ~ShowHint

C6_Witness == ShowError /\ ShowList /\ ~loading /\ calls = {}

C8_Success ==
    [][last'.op = "jsonResolved"
        => /\ results' = ListOf(last'.arg.body)
           /\ last'.arg.body.json.results.kind = "array"
                 => Len(results') = Len(last'.arg.body.json.results.items)
           /\ last'.arg.body.json.results.kind = "absent" => results' = <<>>
           /\ error' = error]_vars

C8_Witness ==
    /\ last.op = "jsonResolved"
    /\ last.arg.body.json.results.kind = "array"
    /\ Len(results) = MaxBand
    /\ nfetch = 2 /\ calls = {}

(* C9: a submission that fails locally leaves the loading flag alone,      *)
(* every settlement clears it, and with no request outstanding the flag is *)
(* false and the submit control enabled.                                   *)
C9_Ready ==
    [][/\ (last'.op = "handleSubmit" /\ (~Configured \/ IsBlank(query)))
            => loading' = loading
       /\ last'.op \in SettleOps => ~loading'
       /\ calls' = {} => (~loading' /\ ~SubmitDisabled')]_vars

C9_Witness ==
    /\ last.op \in FailOps /\ calls = {} /\ nfetch = 2
    /\ ~loading /\ ~SubmitDisabled

(* C10: a submission that fails locally changes only the error: the result *)
(* list, the loading flag and the query are left as they were.             *)
C10_Frame ==
    [][(last'.op = "handleSubmit" /\ (~Configured \/ IsBlank(query)))
        => /\ results' = results
           /\ loading' = loading
           /\ query' = query
           /\ calls' = calls]_vars

C10_Witness ==
    /\ last.op = "handleSubmit" /\ error = ValidationError
    /\ results # <<>> /\ ~loading
====
